---- MODULE Spec2Model ----
(***************************************************************************)
(* Spaced-repetition core of the flashcard app: the SM-2 scheduler         *)
(* (calculateSM2), card creation (POST /api/flashcards) and the review     *)
(* handler (POST /api/reviews) with its prisma.$transaction.               *)
(*                                                                         *)
(* Ease factors are held as integers scaled by 100 (2.5 is 250), so the    *)
(* scheduler's decimal arithmetic is exact.  Time is a counter of ticks,   *)
(* TicksPerDay ticks to a calendar day.                                    *)
(***************************************************************************)
EXTENDS Integers, Sequences, FiniteSets, TLC

VARIABLES now, owner, sched, history, daily, streak, req, submitted, sm2,
          due

vars ==
    <<now, owner, sched, history, daily, streak, req, submitted, sm2, due>>

dbVars == <<owner, sched, history, daily, streak>>

(***************************************************************************)
(* Bounds of the model.                                                    *)
(***************************************************************************)
MaxSubmits == 2
MaxSeqSubmits == 3
MaxTicks == 1
MaxChain == 5
MaxPriorReps == 3
StartDay == 3

(***************************************************************************)
(* Program constants.                                                      *)
(***************************************************************************)
TicksPerDay == 2
MinEase == 130
MaxEase == 250
DefaultEase == 250
DefaultInterval == 1
DefaultRepetitions == 0
SecondInterval == 6
PassQuality == 3
TopQuality == 5
SecondsPerMinute == 60

Users == {"u1", "u2"}
Cards == {"c1", "c2"}
Requests == {"r1", "r2"}
NoUser == "nobody"
Deleted == "deleted"
NoCard == "nocard"
NoResult == "pending"
NoRow == [absent |-> TRUE]
NoLatency == 0 - 1
NoDate == 0 - 1

Max(a, b) == IF a >= b THEN a ELSE b
Min(a, b) == IF a <= b THEN a ELSE b

(* Rounding that drops the fraction instead of rounding it. *)
RoundDown100(x) == x \div 100

(* Math.round on a non-negative value given as hundredths: half rounds up. *)
Round100(x) == (x + 50) \div 100

(* Whole minutes only. *)
FloorMinutes(s) == s \div SecondsPerMinute

(* Math.ceil(seconds / 60) for seconds >= 0. *)
CeilMinutes(s) == (s + SecondsPerMinute - 1) \div SecondsPerMinute

(* setHours(0, 0, 0, 0): the start of the calendar day holding tick t. *)
StartOfDay(t) == (t \div TicksPerDay) * TicksPerDay

(***************************************************************************)
(* calculateSM2.  easeFactor in hundredths; date is the value of           *)
(* new Date() read inside the function.                                    *)
(***************************************************************************)
(* The quality term without its quadratic part. *)
EaseDeltaLinear(quality) == 10 - (TopQuality - quality) * 8

(* The quality term counted from quality 4 instead of quality 5. *)
EaseDeltaFromFour(quality) ==
    10 - (TopQuality - 1 - quality) * (8 + (TopQuality - 1 - quality) * 2)

EaseDelta(quality) ==
    10 - (TopQuality - quality) * (8 + (TopQuality - quality) * 2)

(* The clamp without its lower bound. *)
ClampEaseNoFloor(ef) == Min(MaxEase, ef)

ClampEase(ef) == Max(MinEase, Min(MaxEase, ef))

NewRepetitions(quality, repetitions) ==
    IF quality < PassQuality THEN 0 ELSE repetitions + 1

(* An incorrect answer that leaves the interval where it was. *)
NewIntervalKeptOnFail(quality, newRepetitions, interval, newEF) ==
    IF quality < PassQuality THEN interval
    ELSE IF newRepetitions = 1 THEN 1
    ELSE IF newRepetitions = 2 THEN SecondInterval
    ELSE Round100(interval * newEF)

(* The second repetition without its fixed interval. *)
NewIntervalNoSecond(quality, newRepetitions, interval, newEF) ==
    IF quality < PassQuality THEN 1
    ELSE IF newRepetitions = 1 THEN 1
    ELSE Round100(interval * newEF)

(* The first repetition given the interval of the second. *)
NewIntervalSixAtOnce(quality, newRepetitions, interval, newEF) ==
    IF quality < PassQuality THEN 1
    ELSE IF newRepetitions <= 2 THEN SecondInterval
    ELSE Round100(interval * newEF)

NewInterval(quality, newRepetitions, interval, newEF) ==
    IF quality < PassQuality THEN 1
    ELSE IF newRepetitions = 1 THEN 1
    ELSE IF newRepetitions = 2 THEN SecondInterval
    ELSE Round100(interval * newEF)

(* The scheduler adding the interval to the date in ticks, not in days. *)
calculateSM2IntervalInTicks(quality, repetitions, easeFactor, interval, date) ==
    LET newEF == ClampEase(easeFactor + EaseDelta(quality))
        newRepetitions == NewRepetitions(quality, repetitions)
        newInterval == NewInterval(quality, newRepetitions, interval, newEF)
    IN  [easeFactor |-> newEF,
         interval |-> newInterval,
         repetitions |-> newRepetitions,
         nextReviewDate |-> date + newInterval]

calculateSM2(quality, repetitions, easeFactor, interval, date) ==
    LET newEF == ClampEase(easeFactor + EaseDelta(quality))
        newRepetitions == NewRepetitions(quality, repetitions)
        newInterval == NewInterval(quality, newRepetitions, interval, newEF)
    IN  [easeFactor |-> newEF,
         interval |-> newInterval,
         repetitions |-> newRepetitions,
         nextReviewDate |-> date + newInterval * TicksPerDay]

(***************************************************************************)
(* Rows of the four tables and of a request in flight.                     *)
(***************************************************************************)
ReviewQualities == {0, 5, 6}
ReviewLatencies == {NoLatency, 61}

(* The clock starts on the last tick of day StartDay, so that the first   *)
(* tick crosses midnight.                                                  *)
StartTime == StartDay * TicksPerDay + TicksPerDay - 1
MaxTime == StartTime + MaxTicks

IdleRequest ==
    [pc |-> "idle", user |-> NoUser, card |-> NoCard, quality |-> 0,
     latency |-> NoLatency, schedule |-> NoRow, newSchedule |-> NoRow,
     calcAt |-> NoDate, today |-> NoDate, streakRead |-> NoRow,
     wSched |-> NoRow, wHist |-> NoRow, wDaily |-> NoRow, wStreak |-> NoRow,
     result |-> NoResult, error |-> NoResult]

NoCall == [start |-> NoRow, qs |-> <<>>, prior |-> NoRow, out |-> NoRow]

(* No due-cards query answered yet. *)
NoQuery == [user |-> NoUser, asOf |-> NoDate, cards |-> <<>>]

TxPcs == {"update", "history", "upsert", "findStreak", "writeStreak", "commit"}

(* Row locks a transaction holds until it commits or rolls back. *)
HoldsSched(r, c) ==
    /\ req[r].card = c
    /\ req[r].pc \in {"history", "upsert", "findStreak", "writeStreak", "commit"}

HoldsDaily(r, u, d) ==
    /\ req[r].user = u
    /\ req[r].today = d
    /\ req[r].pc \in {"findStreak", "writeStreak", "commit"}

HoldsStreak(r, u) ==
    /\ req[r].user = u
    /\ req[r].pc = "commit"

DailyRow(rows, u, d) ==
    IF \E x \in rows : x.userId = u /\ x.date = d
    THEN CHOOSE x \in rows : x.userId = u /\ x.date = d
    ELSE NoRow

StreakRow(rows, u) ==
    IF \E x \in rows : x.userId = u
    THEN CHOOSE x \in rows : x.userId = u
    ELSE NoRow

(***************************************************************************)
(* Initial state: an empty database, no request in flight.                 *)
(***************************************************************************)
Init ==
    /\ now = StartTime
    /\ owner = [c \in Cards |-> NoUser]
    /\ sched = [c \in Cards |-> NoRow]
    /\ history = <<>>
    /\ daily = {}
    /\ streak = {}
    /\ req = [r \in Requests |-> IdleRequest]
    /\ submitted = 0
    /\ sm2 = NoCall
    /\ due = NoQuery

(* The clock advances at any moment, also while requests are in flight. *)
Tick ==
    /\ now < MaxTime
    /\ now' = now + 1
    /\ UNCHANGED <<owner, sched, history, daily, streak, req, submitted, sm2, due>>

(***************************************************************************)
(* POST /api/flashcards: the card and its initial review schedule are      *)
(* created by one nested create.                                           *)
(***************************************************************************)
(* The initial schedule due on the day of creation. *)
InitialScheduleDueToday(u, date) ==
    [userId |-> u,
     easeFactor |-> DefaultEase,
     interval |-> DefaultInterval,
     repetitions |-> DefaultRepetitions,
     nextReviewDate |-> date,
     lastReviewedAt |-> NoDate]

InitialSchedule(u, date) ==
    [userId |-> u,
     easeFactor |-> DefaultEase,
     interval |-> DefaultInterval,
     repetitions |-> DefaultRepetitions,
     nextReviewDate |-> date + TicksPerDay,
     lastReviewedAt |-> NoDate]

CreateFlashcard(u, c) ==
    /\ owner[c] = NoUser
    /\ owner' = [owner EXCEPT ![c] = u]
    /\ sched' = [sched EXCEPT ![c] = InitialSchedule(u, now)]
    /\ UNCHANGED <<now, history, daily, streak, req, submitted, sm2, due>>

(***************************************************************************)
(* prisma.flashcard.delete: the foreign keys of ReviewSchedule and         *)
(* ReviewHistory on the card cascade; DailyStat and StudyStreak hang on    *)
(* the user only.  The delete waits for a transaction that holds the lock  *)
(* of the card's schedule.  The identifier of a deleted card is not used   *)
(* again.                                                                  *)
(***************************************************************************)
(* Flashcard.id, a serial number. *)
CardId(c) == IF c = "c1" THEN 1 ELSE 2

NotOfCard(c, h) == h.flashcardId # c

(* The delete whose cascade misses the history. *)
DeleteFlashcardKeepsHistory(c) ==
    /\ owner[c] \in Users
    /\ \A r \in Requests : ~HoldsSched(r, c)
    /\ owner' = [owner EXCEPT ![c] = Deleted]
    /\ sched' = [sched EXCEPT ![c] = NoRow]
    /\ UNCHANGED <<now, history, daily, streak, req, submitted, sm2, due>>

DeleteFlashcard(c) ==
    /\ owner[c] \in Users
    /\ \A r \in Requests : ~HoldsSched(r, c)
    /\ owner' = [owner EXCEPT ![c] = Deleted]
    /\ sched' = [sched EXCEPT ![c] = NoRow]
    /\ history' = SelectSeq(history, LAMBDA h : NotOfCard(c, h))
    /\ UNCHANGED <<now, daily, streak, req, submitted, sm2, due>>

(***************************************************************************)
(* The due-cards query: prisma.flashcard.findMany of the user's cards      *)
(* whose schedule has nextReviewDate <= new Date(), ordered by             *)
(* nextReviewDate ascending.  The order of rows with equal nextReviewDate  *)
(* is left to the database: any of them may be returned.                   *)
(***************************************************************************)
(* The filter with lt in place of lte. *)
DueCardSetBefore(u, asOf) ==
    {c \in Cards : /\ owner[c] = u
                   /\ sched[c] # NoRow
                   /\ sched[c].nextReviewDate < asOf}

DueCardSet(u, asOf) ==
    {c \in Cards : /\ owner[c] = u
                   /\ sched[c] # NoRow
                   /\ sched[c].nextReviewDate <= asOf}

(* The sequences that hold each element of S once. *)
Arrangements(S) ==
    {s \in [1 .. Cardinality(S) -> S] :
        \A i, j \in 1 .. Cardinality(S) : s[i] = s[j] => i = j}

(* The order with desc in place of asc. *)
OrderedByNextReviewDateDesc(s) ==
    \A i, j \in 1 .. Len(s) :
        i < j => sched[s[i]].nextReviewDate >= sched[s[j]].nextReviewDate

OrderedByNextReviewDate(s) ==
    \A i, j \in 1 .. Len(s) :
        i < j => sched[s[i]].nextReviewDate <= sched[s[j]].nextReviewDate

FetchDueCards(u) ==
    /\ \E s \in Arrangements(DueCardSet(u, now)) :
          /\ OrderedByNextReviewDate(s)
          /\ due' = [user |-> u, asOf |-> now, cards |-> s]
    /\ UNCHANGED <<now, owner, sched, history, daily, streak, req, submitted,
                   sm2>>

(***************************************************************************)
(* POST /api/reviews.                                                      *)
(***************************************************************************)
Finish(r, res) ==
    [IdleRequest EXCEPT !.pc = "done", !.result = res]

(* The catch block: the thrown error is logged, the answer is 500. *)
Catch(r, thrown) ==
    [IdleRequest EXCEPT !.pc = "done", !.result = "InternalError",
                        !.error = thrown]

(* The validation with its upper bound only. *)
SubmitReviewNoLowerBound(r, u, c, q, lat) ==
    /\ req[r].pc \in {"idle", "done"}
    /\ submitted' = submitted + 1
    /\ LET arrived == [IdleRequest EXCEPT !.user = u, !.card = c,
                                         !.quality = q, !.latency = lat]
       IN  req' = [req EXCEPT ![r] =
                      IF q > TopQuality
                      THEN Finish(r, "InvalidInput")
                      ELSE [arrived EXCEPT !.pc = "fetch"]]
    /\ UNCHANGED <<now, owner, sched, history, daily, streak, sm2, due>>

(* The request arrives and its quality is validated (0..5). *)
SubmitReview(r, u, c, q, lat) ==
    /\ req[r].pc \in {"idle", "done"}
    /\ submitted' = submitted + 1
    /\ LET arrived == [IdleRequest EXCEPT !.user = u, !.card = c,
                                          !.quality = q, !.latency = lat]
       IN  req' = [req EXCEPT ![r] =
                IF q < 0 \/ q > TopQuality
                THEN Finish(r, "InvalidInput")
                ELSE [arrived EXCEPT !.pc = "fetch"]]
    /\ UNCHANGED <<now, owner, sched, history, daily, streak, sm2, due>>

(* reviewSchedule.findUnique({ where: { flashcardId } }), then calculateSM2,  *)
(* which reads the clock (calcAt) for nextReviewDate.                        *)
FetchSchedule(r) ==
    /\ req[r].pc = "fetch"
    /\ LET schedule == sched[req[r].card]
       IN  req' = [req EXCEPT ![r] =
                IF schedule = NoRow
                THEN Finish(r, "NotFound")
                ELSE [@ EXCEPT !.pc = "update",
                               !.schedule = schedule,
                               !.calcAt = now,
                               !.newSchedule =
                                   calculateSM2(req[r].quality,
                                                schedule.repetitions,
                                                schedule.easeFactor,
                                                schedule.interval, now)]]
    /\ UNCHANGED <<now, owner, sched, history, daily, streak, submitted, sm2, due>>

(* The schedule update issued on the client instead of the transaction:  *)
(* it is committed at once.                                               *)
UpdateScheduleOutsideTx(r) ==
    /\ req[r].pc = "update"
    /\ \A o \in Requests \ {r} : ~HoldsSched(o, req[r].card)
    /\ LET row == [userId |-> sched[req[r].card].userId,
                   easeFactor |-> req[r].newSchedule.easeFactor,
                   interval |-> req[r].newSchedule.interval,
                   repetitions |-> req[r].newSchedule.repetitions,
                   nextReviewDate |-> req[r].newSchedule.nextReviewDate,
                   lastReviewedAt |-> now]
       IN  /\ req' = [req EXCEPT ![r].pc = "history", ![r].wSched = row]
           /\ sched' = [sched EXCEPT ![req[r].card] = row]
    /\ UNCHANGED <<now, owner, history, daily, streak, submitted, sm2, due>>

(* tx.reviewSchedule.update: takes the row lock of the card's schedule.   *)
(* The update of a row deleted since it was read throws.                  *)
TxUpdateSchedule(r) ==
    /\ req[r].pc = "update"
    /\ \/ /\ sched[req[r].card] = NoRow
          /\ req' = [req EXCEPT ![r] = Catch(r, "RecordNotFound")]
       \/ /\ sched[req[r].card] # NoRow
          /\ \A o \in Requests \ {r} : ~HoldsSched(o, req[r].card)
          /\ req' = [req EXCEPT
                ![r].pc = "history",
                ![r].wSched =
                    [userId |-> sched[req[r].card].userId,
                     easeFactor |-> req[r].newSchedule.easeFactor,
                     interval |-> req[r].newSchedule.interval,
                     repetitions |-> req[r].newSchedule.repetitions,
                     nextReviewDate |-> req[r].newSchedule.nextReviewDate,
                     lastReviewedAt |-> now]]
    /\ UNCHANGED <<now, owner, sched, history, daily, streak, submitted, sm2, due>>

(* tx.reviewHistory.create *)
TxCreateHistory(r) ==
    /\ req[r].pc = "history"
    /\ req' = [req EXCEPT ![r].pc = "upsert",
                          ![r].wHist =
                              [flashcardId |-> req[r].card,
                               userId |-> req[r].user,
                               quality |-> req[r].quality,
                               wasCorrect |-> req[r].quality >= PassQuality,
                               responseTimeSeconds |-> req[r].latency,
                               easeFactorBefore |-> req[r].schedule.easeFactor,
                               easeFactorAfter |-> req[r].newSchedule.easeFactor,
                               intervalBefore |-> req[r].schedule.interval,
                               intervalAfter |-> req[r].newSchedule.interval]]
    /\ UNCHANGED <<now, owner, sched, history, daily, streak, submitted, sm2, due>>

(* Math.ceil((responseTimeSeconds || 0) / 60) *)
StudyMinutes(lat) == CeilMinutes(IF lat = NoLatency THEN 0 ELSE lat)

(* tx.dailyStat.upsert on the unique key (userId, date): one atomic write. *)
UpsertDailyStat(row, u, today, quality, lat) ==
    IF row = NoRow
    THEN [userId |-> u,
          date |-> today,
          cardsReviewed |-> 1,
          correctAnswers |-> IF quality >= PassQuality THEN 1 ELSE 0,
          totalAnswers |-> 1,
          studyTimeMinutes |-> StudyMinutes(lat)]
    ELSE [row EXCEPT
          !.cardsReviewed = @ + 1,
          !.correctAnswers = @ + (IF quality >= PassQuality THEN 1 ELSE 0),
          !.totalAnswers = @ + 1,
          !.studyTimeMinutes = @ + StudyMinutes(lat)]

(* The upsert as a read followed by a write, without waiting for the row. *)
TxUpsertDailyStatReadThenWrite(r) ==
    /\ req[r].pc = "upsert"
    /\ LET today == StartOfDay(now)
       IN  req' = [req EXCEPT ![r].pc = "findStreak",
                              ![r].today = today,
                              ![r].wDaily =
                                  UpsertDailyStat(
                                      DailyRow(daily, req[r].user, today),
                                      req[r].user, today,
                                      req[r].quality, req[r].latency)]
    /\ UNCHANGED <<now, owner, sched, history, daily, streak, submitted, sm2,
                   due>>

TxUpsertDailyStat(r) ==
    /\ req[r].pc = "upsert"
    /\ LET today == StartOfDay(now)
       IN  /\ \A o \in Requests \ {r} : ~HoldsDaily(o, req[r].user, today)
           /\ req' = [req EXCEPT ![r].pc = "findStreak",
                                 ![r].today = today,
                                 ![r].wDaily =
                                     UpsertDailyStat(
                                         DailyRow(daily, req[r].user, today),
                                         req[r].user, today,
                                         req[r].quality, req[r].latency)]
    /\ UNCHANGED <<now, owner, sched, history, daily, streak, submitted, sm2, due>>

(* tx.studyStreak.findUnique: a read of the committed row. *)
TxFindStreak(r) ==
    /\ req[r].pc = "findStreak"
    /\ req' = [req EXCEPT ![r].pc = "writeStreak",
                          ![r].streakRead = StreakRow(streak, req[r].user)]
    /\ UNCHANGED <<now, owner, sched, history, daily, streak, submitted, sm2, due>>

(* The streak update that keeps the streak over a gap. *)
NextStreakNoReset(row, u, today) ==
    IF row = NoRow
    THEN [userId |-> u, currentStreak |-> 1, longestStreak |-> 1,
          lastStudyDate |-> today]
    ELSE LET yesterday == today - TicksPerDay
             lastStudy == StartOfDay(IF row.lastStudyDate = NoDate
                                     THEN 0 ELSE row.lastStudyDate)
             newCurrentStreak ==
                 IF lastStudy = yesterday THEN row.currentStreak + 1
                 ELSE row.currentStreak
         IN  [userId |-> u,
              currentStreak |-> newCurrentStreak,
              longestStreak |-> Max(row.longestStreak, newCurrentStreak),
              lastStudyDate |-> today]

(* The streak update that counts every review of a day. *)
NextStreakCountsEveryReview(row, u, today) ==
    IF row = NoRow
    THEN [userId |-> u, currentStreak |-> 1, longestStreak |-> 1,
          lastStudyDate |-> today]
    ELSE LET yesterday == today - TicksPerDay
             lastStudy == StartOfDay(IF row.lastStudyDate = NoDate
                                     THEN 0 ELSE row.lastStudyDate)
             newCurrentStreak ==
                 IF lastStudy >= yesterday THEN row.currentStreak + 1
                 ELSE 1
         IN  [userId |-> u,
              currentStreak |-> newCurrentStreak,
              longestStreak |-> Max(row.longestStreak, newCurrentStreak),
              lastStudyDate |-> today]

(* The streak update that never raises the longest streak. *)
NextStreakLongestStale(row, u, today) ==
    IF row = NoRow
    THEN [userId |-> u, currentStreak |-> 1, longestStreak |-> 1,
          lastStudyDate |-> today]
    ELSE LET yesterday == today - TicksPerDay
             lastStudy == StartOfDay(IF row.lastStudyDate = NoDate
                                     THEN 0 ELSE row.lastStudyDate)
             newCurrentStreak ==
                 IF lastStudy = yesterday THEN row.currentStreak + 1
                 ELSE IF lastStudy < yesterday THEN 1
                 ELSE row.currentStreak
         IN  [userId |-> u,
              currentStreak |-> newCurrentStreak,
              longestStreak |-> row.longestStreak,
              lastStudyDate |-> today]

(* The streak update whose longest streak follows the current one. *)
NextStreakLongestFollows(row, u, today) ==
    IF row = NoRow
    THEN [userId |-> u, currentStreak |-> 1, longestStreak |-> 1,
          lastStudyDate |-> today]
    ELSE LET yesterday == today - TicksPerDay
             lastStudy == StartOfDay(IF row.lastStudyDate = NoDate
                                     THEN 0 ELSE row.lastStudyDate)
             newCurrentStreak ==
                 IF lastStudy = yesterday THEN row.currentStreak + 1
                 ELSE IF lastStudy < yesterday THEN 1
                 ELSE row.currentStreak
         IN  [userId |-> u,
              currentStreak |-> newCurrentStreak,
              longestStreak |-> newCurrentStreak,
              lastStudyDate |-> today]

(* The streak update that resets on a last study date after today. *)
NextStreakFutureResets(row, u, today) ==
    IF row = NoRow
    THEN [userId |-> u, currentStreak |-> 1, longestStreak |-> 1,
          lastStudyDate |-> today]
    ELSE LET yesterday == today - TicksPerDay
             lastStudy == StartOfDay(IF row.lastStudyDate = NoDate
                                     THEN 0 ELSE row.lastStudyDate)
             newCurrentStreak ==
                 IF lastStudy = yesterday THEN row.currentStreak + 1
                 ELSE IF lastStudy = today THEN row.currentStreak
                 ELSE 1
         IN  [userId |-> u,
              currentStreak |-> newCurrentStreak,
              longestStreak |-> Max(row.longestStreak, newCurrentStreak),
              lastStudyDate |-> today]

(* The streak written for the row read, on calendar day today. *)
NextStreak(row, u, today) ==
    IF row = NoRow
    THEN [userId |-> u, currentStreak |-> 1, longestStreak |-> 1,
          lastStudyDate |-> today]
    ELSE LET yesterday == today - TicksPerDay
             lastStudy == StartOfDay(IF row.lastStudyDate = NoDate
                                     THEN 0 ELSE row.lastStudyDate)
             newCurrentStreak ==
                 IF lastStudy = yesterday THEN row.currentStreak + 1
                 ELSE IF lastStudy < yesterday THEN 1
                 ELSE row.currentStreak
         IN  [userId |-> u,
              currentStreak |-> newCurrentStreak,
              longestStreak |-> Max(row.longestStreak, newCurrentStreak),
              lastStudyDate |-> today]

(* tx.studyStreak.create when no row was found, tx.studyStreak.update       *)
(* otherwise.  A create for a user whose row another transaction has        *)
(* committed meanwhile violates StudyStreak_userId_key and throws.          *)
TxWriteStreak(r) ==
    /\ req[r].pc = "writeStreak"
    /\ \A o \in Requests \ {r} : ~HoldsStreak(o, req[r].user)
    /\ \/ /\ req[r].streakRead = NoRow
          /\ StreakRow(streak, req[r].user) # NoRow
          /\ req' = [req EXCEPT ![r] = Catch(r, "UniqueConstraint")]
       \/ /\ req[r].streakRead = NoRow => StreakRow(streak, req[r].user) = NoRow
          /\ req' = [req EXCEPT ![r].pc = "commit",
                                ![r].wStreak =
                                    NextStreak(req[r].streakRead, req[r].user,
                                               req[r].today)]
    /\ UNCHANGED <<now, owner, sched, history, daily, streak, submitted, sm2, due>>

(* The commit whose daily write is a plain insert. *)
TxCommitInsertsDaily(r) ==
    /\ req[r].pc = "commit"
    /\ sched' = [sched EXCEPT ![req[r].card] = req[r].wSched]
    /\ history' = Append(history, req[r].wHist)
    /\ daily' = daily \cup {req[r].wDaily}
    /\ streak' = (streak \ {StreakRow(streak, req[r].user)})
                    \cup {req[r].wStreak}
    /\ req' = [req EXCEPT ![r] = Finish(r, "ok")]
    /\ UNCHANGED <<now, owner, submitted, sm2, due>>

(* The commit whose schedule update names the user instead of the card. *)
TxCommitUpdatesUserSchedules(r) ==
    /\ req[r].pc = "commit"
    /\ sched' = [c \in Cards |->
                    IF sched[c] # NoRow /\ sched[c].userId = req[r].wSched.userId
                    THEN req[r].wSched
                    ELSE sched[c]]
    /\ history' = Append(history, req[r].wHist)
    /\ daily' = (daily \ {DailyRow(daily, req[r].user, req[r].today)})
                    \cup {req[r].wDaily}
    /\ streak' = (streak \ {StreakRow(streak, req[r].user)})
                    \cup {req[r].wStreak}
    /\ req' = [req EXCEPT ![r] = Finish(r, "ok")]
    /\ UNCHANGED <<now, owner, submitted, sm2, due>>

(* The callback returned: prisma.$transaction commits the four writes.      *)
TxCommit(r) ==
    /\ req[r].pc = "commit"
    /\ sched' = [sched EXCEPT ![req[r].card] = req[r].wSched]
    /\ history' = Append(history, req[r].wHist)
    /\ daily' = (daily \ {DailyRow(daily, req[r].user, req[r].today)})
                    \cup {req[r].wDaily}
    /\ streak' = (streak \ {StreakRow(streak, req[r].user)})
                    \cup {req[r].wStreak}
    /\ req' = [req EXCEPT ![r] = Finish(r, "ok")]
    /\ UNCHANGED <<now, owner, submitted, sm2, due>>

(* A write inside the transaction throws (storage failure): the             *)
(* transaction rolls back and the catch block answers 500.                  *)
TxFail(r) ==
    /\ req[r].pc \in TxPcs
    /\ req' = [req EXCEPT ![r] = Catch(r, "StorageFailure")]
    /\ UNCHANGED <<now, owner, sched, history, daily, streak, submitted, sm2, due>>

Next ==
    \/ Tick
    \/ \E u \in Users, c \in Cards : CreateFlashcard(u, c)
    \/ \E r \in Requests, u \in Users, c \in Cards,
          q \in ReviewQualities, lat \in ReviewLatencies :
            submitted < MaxSubmits /\ SubmitReview(r, u, c, q, lat)
    \/ \E r \in Requests : FetchSchedule(r)
    \/ \E r \in Requests : TxUpdateSchedule(r)
    \/ \E r \in Requests : TxCreateHistory(r)
    \/ \E r \in Requests : TxUpsertDailyStat(r)
    \/ \E r \in Requests : TxFindStreak(r)
    \/ \E r \in Requests : TxWriteStreak(r)
    \/ \E r \in Requests : TxCommit(r)
    \/ \E r \in Requests : TxFail(r)

Spec == Init /\ [][Next]_vars

(***************************************************************************)
(* The same handlers with one request at a time: longer sequences of       *)
(* reviews of one card by its owner, with every quality.                   *)
(***************************************************************************)
SeqRequest == "r1"
SeqUsers == {"u1"}
SeqCards == {"c1"}
SeqLatencies == {NoLatency}
SeqQualities == (0 - 1) .. (TopQuality + 1)

NextSeq ==
    \/ Tick
    \/ \E u \in SeqUsers, c \in SeqCards : CreateFlashcard(u, c)
    \/ \E u \in SeqUsers, c \in SeqCards,
          q \in SeqQualities, lat \in SeqLatencies :
            submitted < MaxSeqSubmits /\ SubmitReview(SeqRequest, u, c, q, lat)
    \/ FetchSchedule(SeqRequest)
    \/ TxUpdateSchedule(SeqRequest)
    \/ TxCreateHistory(SeqRequest)
    \/ TxUpsertDailyStat(SeqRequest)
    \/ TxFindStreak(SeqRequest)
    \/ TxWriteStreak(SeqRequest)
    \/ TxCommit(SeqRequest)
    \/ TxFail(SeqRequest)

SpecSeq == Init /\ [][NextSeq]_vars

(***************************************************************************)
(* The streak over several days: one user reviews one card, one request at *)
(* a time, while the clock moves on by whole days.  The run starts with no *)
(* StudyStreak row, with the row of the column defaults (0, 0, null), or   *)
(* with a row left by earlier reviews (of cards deleted since) whose last  *)
(* study day lies before, on or after the starting day.                    *)
(***************************************************************************)
MaxStreakDays == 2
MaxDaySubmits == 3

DayUser == "u1"
DayCard == "c1"
DayQualities == {1, 4}
PriorStreakCounts == {<<1, 1>>, <<5, 5>>, <<5, 12>>}
PriorStudyDays == (StartDay - 3) .. (StartDay + 2)

PriorStreaks ==
    {[userId |-> DayUser, currentStreak |-> 0, longestStreak |-> 0,
      lastStudyDate |-> NoDate]}
    \cup {[userId |-> DayUser, currentStreak |-> n[1], longestStreak |-> n[2],
           lastStudyDate |-> d * TicksPerDay] :
              n \in PriorStreakCounts, d \in PriorStudyDays}

(* The DailyStat row of the review that left the streak row. *)
PriorDaily(row) ==
    IF row.lastStudyDate = NoDate
    THEN {}
    ELSE {[userId |-> row.userId, date |-> row.lastStudyDate,
           cardsReviewed |-> 1, correctAnswers |-> 1, totalAnswers |-> 1,
           studyTimeMinutes |-> 0]}

InitDays ==
    /\ now = StartTime
    /\ owner = [c \in Cards |-> IF c = DayCard THEN DayUser ELSE NoUser]
    /\ sched = [c \in Cards |-> IF c = DayCard
                                THEN InitialSchedule(DayUser, StartTime)
                                ELSE NoRow]
    /\ history = <<>>
    /\ \/ streak = {} /\ daily = {}
       \/ \E row \in PriorStreaks : streak = {row} /\ daily = PriorDaily(row)
    /\ req = [r \in Requests |-> IdleRequest]
    /\ submitted = 0
    /\ sm2 = NoCall
    /\ due = NoQuery

(* A day passes. *)
NextDay ==
    /\ now + TicksPerDay <= StartTime + MaxStreakDays * TicksPerDay
    /\ now' = now + TicksPerDay
    /\ UNCHANGED <<owner, sched, history, daily, streak, req, submitted, sm2, due>>

NextDays ==
    \/ NextDay
    \/ \E q \in DayQualities, lat \in SeqLatencies :
            submitted < MaxDaySubmits
            /\ SubmitReview(SeqRequest, DayUser, DayCard, q, lat)
    \/ FetchSchedule(SeqRequest)
    \/ TxUpdateSchedule(SeqRequest)
    \/ TxCreateHistory(SeqRequest)
    \/ TxUpsertDailyStat(SeqRequest)
    \/ TxFindStreak(SeqRequest)
    \/ TxWriteStreak(SeqRequest)
    \/ TxCommit(SeqRequest)
    \/ TxFail(SeqRequest)

SpecDays == InitDays /\ [][NextDays]_vars

(***************************************************************************)
(* Cards over time: the two users create, review and delete cards and ask  *)
(* for their due cards while the clock moves on; one review at a time.     *)
(***************************************************************************)
MaxCardSubmits == 1

CardQualities == {1, 4}

NextCards ==
    \/ NextDay
    \/ \E u \in Users, c \in Cards : CreateFlashcard(u, c)
    \/ \E c \in Cards : DeleteFlashcard(c)
    \/ \E u \in Users : FetchDueCards(u)
    \/ \E u \in Users, c \in Cards, q \in CardQualities, lat \in SeqLatencies :
            submitted < MaxCardSubmits
            /\ SubmitReview(SeqRequest, u, c, q, lat)
    \/ FetchSchedule(SeqRequest)
    \/ TxUpdateSchedule(SeqRequest)
    \/ TxCreateHistory(SeqRequest)
    \/ TxUpsertDailyStat(SeqRequest)
    \/ TxFindStreak(SeqRequest)
    \/ TxWriteStreak(SeqRequest)
    \/ TxCommit(SeqRequest)
    \/ TxFail(SeqRequest)

SpecCards == Init /\ [][NextCards]_vars

(* The same with time that keeps passing, up to the last day of the run. *)
CardHorizon == StartTime + MaxStreakDays * TicksPerDay

SpecCardsFair == SpecCards /\ WF_vars(NextDay)

(***************************************************************************)
(* The scheduler on its own: calculateSM2 applied to a prior state drawn   *)
(* from a bounded set, then to its own results, for every quality 0..5.    *)
(* sm2.prior and sm2.out are the input and the result of the last call.    *)
(***************************************************************************)
Qualities == 0 .. TopQuality
PriorEase == {MinEase, DefaultEase, 280}
PriorIntervals == {0, 1, 16}

PriorStates ==
    [repetitions : 0 .. MaxPriorReps, easeFactor : PriorEase,
     interval : PriorIntervals]

DefaultState ==
    [repetitions |-> DefaultRepetitions, easeFactor |-> DefaultEase,
     interval |-> DefaultInterval]

InitSM2 ==
    /\ now = StartTime
    /\ owner = [c \in Cards |-> NoUser]
    /\ sched = [c \in Cards |-> NoRow]
    /\ history = <<>>
    /\ daily = {}
    /\ streak = {}
    /\ req = [r \in Requests |-> IdleRequest]
    /\ submitted = 0
    /\ sm2 \in {[start |-> p, qs |-> <<>>, prior |-> p, out |-> NoRow] :
                    p \in PriorStates}
    /\ due = NoQuery

ApplySM2(q) ==
    /\ Len(sm2.qs) < MaxChain
    /\ LET input == IF sm2.qs = <<>> THEN sm2.start
                    ELSE [repetitions |-> sm2.out.repetitions,
                          easeFactor |-> sm2.out.easeFactor,
                          interval |-> sm2.out.interval]
       IN  sm2' = [start |-> sm2.start,
                   qs |-> Append(sm2.qs, q),
                   prior |-> input,
                   out |-> calculateSM2(q, input.repetitions,
                                        input.easeFactor, input.interval, now)]
    /\ UNCHANGED <<now, owner, sched, history, daily, streak, req, submitted,
                   due>>

NextSM2 == \E q \in Qualities : ApplySM2(q)

SpecSM2 == InitSM2 /\ [][NextSM2]_vars

LastQuality == sm2.qs[Len(sm2.qs)]

Called == sm2.qs # <<>>

(* The integer nearest to p / 100, a half rounding up, stated by its bounds. *)
IsRoundHalfUp(n, p) == 200 * n <= 2 * p + 100 /\ 2 * p + 100 < 200 * (n + 1)

(***************************************************************************)
(* C5: for every prior state and every quality 0, 1 or 2 the scheduler     *)
(* returns repetitions 0 and interval 1.                                   *)
(***************************************************************************)
C5_FailResets ==
    (Called /\ LastQuality < 3) =>
        (sm2.out.repetitions = 0 /\ sm2.out.interval = 1)

C5_Witness ==
    /\ Called
    /\ LastQuality < 3
    /\ sm2.prior.repetitions = 3
    /\ sm2.prior.interval = 16
    /\ sm2.out.repetitions = 0
    /\ sm2.out.interval = 1

C8_FloorOnly ==
    Called =>
        sm2.out.easeFactor =
            Max(MinEase, sm2.prior.easeFactor + EaseDelta(LastQuality))

(***************************************************************************)
(* C9 as stated: five quality-4 reviews of a new card give (repetitions,   *)
(* interval, ease) = (1, 1, 2.6), (2, 6, 2.7), (3, 16, 2.8), (4, 45, 2.9), *)
(* (5, 130, 3.0).                                                          *)
(***************************************************************************)
Triple(x) == <<x.repetitions, x.interval, x.easeFactor>>

ForgetExample == [repetitions |-> 3, easeFactor |-> 280, interval |-> 16]

ReviewsOf(c) == SelectSeq(history, LAMBDA h : h.flashcardId = c)

RECURSIVE ApplyAll(_, _)
ApplyAll(state, qs) ==
    IF qs = <<>> THEN state
    ELSE LET next == calculateSM2(Head(qs), state.repetitions,
                                  state.easeFactor, state.interval, 0)
         IN  ApplyAll([repetitions |-> next.repetitions,
                       easeFactor |-> next.easeFactor,
                       interval |-> next.interval], Tail(qs))

Orders(n) == {p \in [1 .. n -> 1 .. n] : \A i, j \in 1 .. n : p[i] = p[j] => i = j}

(***************************************************************************)
(* C1: overlapping reviews of one card are serialised: the card's schedule *)
(* is the scheduler applied to the committed reviews of the card one after *)
(* another in some order, never the result of only some of them.           *)
(***************************************************************************)
C1_Serialized ==
    \A c \in Cards :
        sched[c] # NoRow =>
            LET revs == ReviewsOf(c)
            IN  \E p \in Orders(Len(revs)) :
                    Triple(sched[c]) =
                        Triple(ApplyAll(DefaultState,
                                        [i \in 1 .. Len(revs) |-> revs[p[i]].quality]))

(***************************************************************************)
(* C2: a review that fails (invalid quality, schedule not found, or a      *)
(* failure inside the transaction) leaves schedules, history, daily stats  *)
(* and streaks as they were, and no step applies only some of the four     *)
(* writes: whenever one of the four tables changes, one history entry is   *)
(* appended, the entry's card has the schedule the entry records, and the  *)
(* reviewer's daily stat and streak are written for the same day.          *)
(***************************************************************************)
ReviewTables == <<sched, history, daily, streak>>

C2_AllOrNothing ==
    [][/\ \A r \in Requests :
            (req[r].pc # "done" /\ req'[r].pc = "done" /\ req'[r].result # "ok")
                => UNCHANGED ReviewTables
       /\ (ReviewTables' # ReviewTables /\ owner' = owner) =>
            /\ Len(history') = Len(history) + 1
            /\ SubSeq(history', 1, Len(history)) = history
            /\ LET e == history'[Len(history')]
               IN  /\ sched'[e.flashcardId].easeFactor = e.easeFactorAfter
                   /\ sched'[e.flashcardId].interval = e.intervalAfter
                   /\ sched'[e.flashcardId].lastReviewedAt # NoDate
                   /\ \E new \in daily' :
                        LET old == DailyRow(daily, e.userId, new.date)
                        IN  /\ new.userId = e.userId
                            /\ new.totalAnswers =
                                 (IF old = NoRow THEN 0 ELSE old.totalAnswers) + 1
                            /\ StreakRow(streak', e.userId) # NoRow
                            /\ StreakRow(streak', e.userId).lastStudyDate = new.date
      ]_vars

C2_Witness ==
    /\ \E r \in Requests : req[r].error = "StorageFailure"
    /\ \E r \in Requests : req[r].result = "NotFound"

(***************************************************************************)
(* C3: a review of a card that another user owns fails with NotFound and   *)
(* changes nothing, so no history entry records a reviewer other than the  *)
(* owner of its card.                                                      *)
(***************************************************************************)
C3_ForeignRejected ==
    \A i \in DOMAIN history :
        history[i].userId = owner[history[i].flashcardId]

(***************************************************************************)
(* C4: reviews that overlap on different cards, or by different users, are *)
(* independent and both commit: no review is ever turned down because of a *)
(* row that a concurrent review wrote.                                     *)
(***************************************************************************)
C4_IndependentCommit ==
    \A r \in Requests : req[r].error # "UniqueConstraint"

(***************************************************************************)
(* C7: every stored schedule has easeFactor >= 1.3, interval >= 1 and      *)
(* repetitions >= 0.                                                       *)
(***************************************************************************)
C7_ScheduleBounds ==
    \A c \in Cards :
        sched[c] # NoRow =>
            /\ sched[c].easeFactor >= 130
            /\ sched[c].interval >= 1
            /\ sched[c].repetitions >= 0

C7_Witness ==
    \E c \in Cards :
        /\ sched[c] # NoRow
        /\ sched[c].lastReviewedAt # NoDate
        /\ sched[c].easeFactor = 130
        /\ Len(ReviewsOf(c)) = 2

(***************************************************************************)
(* The ease factor of the last call lies strictly between the two clamps,  *)
(* so neither clamp acted on it.                                           *)
(***************************************************************************)
Unclamped(ef) == MinEase < ef /\ ef < MaxEase

EaseAfter(q) ==
    calculateSM2(q, sm2.prior.repetitions, sm2.prior.easeFactor,
                 sm2.prior.interval, now).easeFactor

C12_IntervalAtLeastOne == Called => sm2.out.interval >= 1

(***************************************************************************)
(* C13: a review whose quality lies outside 0..5 is answered InvalidInput  *)
(* and writes to none of the four tables; only a quality in 0..5 passes    *)
(* the validation, is carried by a request in flight and is recorded in    *)
(* the history.                                                            *)
(***************************************************************************)
C13_QualityValidated ==
    [][
        /\ \A r \in Requests :
            (submitted' = submitted + 1 /\ req'[r] # req[r]) =>
                \/ /\ req'[r].pc = "done"
                   /\ req'[r].result = "InvalidInput"
                   /\ dbVars' = dbVars
                \/ /\ req'[r].pc = "fetch"
                   /\ req'[r].quality \in Qualities
                   /\ dbVars' = dbVars
        /\ \A r \in Requests :
            req'[r].pc \notin {"idle", "done"} => req'[r].quality \in Qualities
        /\ \A i \in 1 .. Len(history') : history'[i].quality \in Qualities
        /\ \A r \in Requests :
            (req[r].result # "InvalidInput" /\ req'[r].result = "InvalidInput")
                => dbVars' = dbVars
    ]_vars

C13_Witness ==
    /\ req[SeqRequest].pc = "done"
    /\ req[SeqRequest].result = "InvalidInput"
    /\ history # <<>>
    /\ submitted = 2

(***************************************************************************)
(* The streak claims look at the step that commits a review of request r:  *)
(* the committed StudyStreak row of the reviewer before and after it, and  *)
(* the calendar day the transaction took as today.                         *)
(***************************************************************************)
Commits(r) == req[r].pc = "commit" /\ req'[r].result = "ok"

(***************************************************************************)
(* C14: a committed review on day today leaves currentStreak 1 when there  *)
(* was no row or no last study day, unchanged when the last study day is   *)
(* today, one more when it is yesterday, 1 when it is older; longestStreak *)
(* is the maximum of its prior value and the new currentStreak, and        *)
(* lastStudyDate is today.  (5, 12, yesterday) gives (6, 12) and           *)
(* (5, 12, three days ago) gives (1, 12).                                  *)
(***************************************************************************)
C14_StreakUpdate ==
    [][\A r \in Requests : Commits(r) =>
        LET today == req[r].today
            prior == StreakRow(streak, req[r].user)
            out == StreakRow(streak', req[r].user)
            hasDay == prior # NoRow /\ prior.lastStudyDate # NoDate
        IN  /\ out # NoRow
            /\ out.lastStudyDate = today
            /\ ~hasDay => out.currentStreak = 1
            /\ (hasDay /\ prior.lastStudyDate = today)
                   => out.currentStreak = prior.currentStreak
            /\ (hasDay /\ prior.lastStudyDate = today - TicksPerDay)
                   => out.currentStreak = prior.currentStreak + 1
            /\ (hasDay /\ prior.lastStudyDate < today - TicksPerDay)
                   => out.currentStreak = 1
            /\ out.longestStreak =
                   Max(IF prior = NoRow THEN 0 ELSE prior.longestStreak,
                       out.currentStreak)
            /\ (/\ hasDay
                /\ prior.currentStreak = 5
                /\ prior.longestStreak = 12
                /\ prior.lastStudyDate = today - TicksPerDay)
                   => out.currentStreak = 6 /\ out.longestStreak = 12
            /\ (/\ hasDay
                /\ prior.currentStreak = 5
                /\ prior.longestStreak = 12
                /\ prior.lastStudyDate = today - 3 * TicksPerDay)
                   => out.currentStreak = 1 /\ out.longestStreak = 12
    ]_vars

(* The gap example committed: (5, 12, three days ago) has become (1, 12). *)
C14_Witness ==
    /\ Len(history) = 1
    /\ req[SeqRequest].result = "ok"
    /\ now = StartTime
    /\ daily = {[userId |-> DayUser, date |-> StartOfDay(StartTime) - 3 * TicksPerDay,
                 cardsReviewed |-> 1, correctAnswers |-> 1,
                 totalAnswers |-> 1, studyTimeMinutes |-> 0],
                [userId |-> DayUser, date |-> StartOfDay(StartTime),
                 cardsReviewed |-> 1, correctAnswers |-> 1,
                 totalAnswers |-> 1, studyTimeMinutes |-> 0]}
    /\ streak = {[userId |-> DayUser, currentStreak |-> 1,
                  longestStreak |-> 12,
                  lastStudyDate |-> StartOfDay(StartTime)]}

(***************************************************************************)
(* C15: the streak update applied to its own result with the same today    *)
(* returns the same currentStreak and longestStreak, and a committed       *)
(* review of a user whose last study day is already today leaves both      *)
(* values as they were.                                                    *)
(***************************************************************************)
C15_IdempotentPerDay ==
    [][\A r \in Requests : Commits(r) =>
        LET today == req[r].today
            prior == StreakRow(streak, req[r].user)
            out == StreakRow(streak', req[r].user)
            again == NextStreak(out, req[r].user, today)
        IN  /\ again.currentStreak = out.currentStreak
            /\ again.longestStreak = out.longestStreak
            /\ (prior # NoRow /\ prior.lastStudyDate = today) =>
                   /\ out.currentStreak = prior.currentStreak
                   /\ out.longestStreak = prior.longestStreak
    ]_vars

(* Three reviews on the starting day after a review the day before: the  *)
(* streak went from 5 to 6 once.                                          *)
C15_Witness ==
    /\ Len(history) = 3
    /\ now = StartTime
    /\ req[SeqRequest].result = "ok"
    /\ \E d \in daily : d.date = StartOfDay(StartTime) /\ d.cardsReviewed = 3
    /\ \E d \in daily : d.date = StartOfDay(StartTime) - TicksPerDay
    /\ streak = {[userId |-> DayUser, currentStreak |-> 6,
                  longestStreak |-> 12,
                  lastStudyDate |-> StartOfDay(StartTime)]}

(***************************************************************************)
(* C16: every StudyStreak row, committed or about to be committed, has     *)
(* longestStreak >= currentStreak >= 0.                                    *)
(***************************************************************************)
C16_LongestBoundsCurrent ==
    /\ \A s \in streak :
          s.longestStreak >= s.currentStreak /\ s.currentStreak >= 0
    /\ \A r \in Requests : req[r].wStreak # NoRow =>
          /\ req[r].wStreak.longestStreak >= req[r].wStreak.currentStreak
          /\ req[r].wStreak.currentStreak >= 0

(* A streak of 5 that was the longest has grown to 7 over two days, and  *)
(* the longest streak with it.                                            *)
C16_Witness ==
    /\ Len(history) = 2
    /\ req[SeqRequest].result = "ok"
    /\ now = StartTime + TicksPerDay
    /\ streak = {[userId |-> DayUser, currentStreak |-> 7,
                  longestStreak |-> 7,
                  lastStudyDate |-> StartOfDay(StartTime) + TicksPerDay]}

(***************************************************************************)
(* C17: from one state to the next no user's longestStreak decreases, and  *)
(* no StudyStreak row disappears.                                          *)
(***************************************************************************)
C17_LongestNeverDecreases ==
    [][\A u \in Users :
        StreakRow(streak, u) # NoRow =>
            /\ StreakRow(streak', u) # NoRow
            /\ StreakRow(streak', u).longestStreak
                   >= StreakRow(streak, u).longestStreak
    ]_vars

(* A review, a day without one, a review: the streak started at the     *)
(* first review is reset to 1 and the longest streak stays 6.            *)
C17_Witness ==
    /\ Len(history) = 2
    /\ req[SeqRequest].result = "ok"
    /\ now = StartTime + 2 * TicksPerDay
    /\ Cardinality(daily) = 3
    /\ \E d \in daily : d.date = StartOfDay(StartTime)
    /\ \A d \in daily : d.date # StartOfDay(StartTime) + TicksPerDay
    /\ streak = {[userId |-> DayUser, currentStreak |-> 1,
                  longestStreak |-> 6,
                  lastStudyDate |-> StartOfDay(StartTime) + 2 * TicksPerDay]}

(***************************************************************************)
(* C18: a review submitted while the stored lastStudyDate is later than    *)
(* today is not failed by the streak update, which computes and commits    *)
(* the same currentStreak and longestStreak as were stored.                *)
(***************************************************************************)
C18_FutureDateIsNoOp ==
    [][\A r \in Requests :
        /\ (/\ req[r].pc = "writeStreak"
            /\ req'[r] # req[r]
            /\ req[r].streakRead # NoRow
            /\ req[r].streakRead.lastStudyDate > req[r].today) =>
               \/ /\ req'[r].pc = "commit"
                  /\ req'[r].wStreak.currentStreak
                         = req[r].streakRead.currentStreak
                  /\ req'[r].wStreak.longestStreak
                         = req[r].streakRead.longestStreak
               \/ req'[r].error = "StorageFailure"
        /\ (/\ Commits(r)
            /\ StreakRow(streak, req[r].user) # NoRow
            /\ StreakRow(streak, req[r].user).lastStudyDate > req[r].today) =>
               /\ StreakRow(streak', req[r].user).currentStreak
                      = StreakRow(streak, req[r].user).currentStreak
               /\ StreakRow(streak', req[r].user).longestStreak
                      = StreakRow(streak, req[r].user).longestStreak
    ]_vars

(* The review of a user whose last study day is tomorrow has committed. *)
C18_Witness ==
    /\ Len(history) = 1
    /\ req[SeqRequest].result = "ok"
    /\ now = StartTime
    /\ \E d \in daily : d.date = StartOfDay(StartTime) + TicksPerDay
    /\ \E d \in daily : d.date = StartOfDay(StartTime)
    /\ streak = {[userId |-> DayUser, currentStreak |-> 5,
                  longestStreak |-> 12,
                  lastStudyDate |-> StartOfDay(StartTime)]}

(***************************************************************************)
(* C19: no two DailyStat rows share (user, day); no row ever disappears;   *)
(* and every committed review leaves exactly one row for its user and its  *)
(* day, adding at most that row to the table.                              *)
(***************************************************************************)
C19_OneRowPerUserDay ==
    [][
        /\ \A x, y \in daily' :
              (x.userId = y.userId /\ x.date = y.date) => x = y
        /\ \A x \in daily :
              \E y \in daily' : y.userId = x.userId /\ y.date = x.date
        /\ \A r \in Requests : Commits(r) =>
              /\ Cardinality({x \in daily' : /\ x.userId = req[r].user
                                             /\ x.date = req[r].today}) = 1
              /\ Cardinality(daily') <= Cardinality(daily) + 1
        /\ (\A r \in Requests : ~Commits(r)) => daily' = daily
    ]_vars

(* Two committed reviews of one user on one day share their single row. *)
C19_Witness ==
    /\ Len(history) = 2
    /\ history[1].userId = history[2].userId
    /\ Cardinality(daily) = 1
    /\ \E x \in daily : x.userId = history[1].userId /\ x.cardsReviewed = 2

(***************************************************************************)
(* C20: a committed review of quality q and latency s changes the          *)
(* reviewer's DailyStat row of today by cardsReviewed + 1, totalAnswers    *)
(* + 1, correctAnswers + 1 when q >= 3 and + 0 otherwise, and              *)
(* studyTimeMinutes + the least number of whole minutes covering s (0      *)
(* when s is absent); a missing row is created with those values; every    *)
(* other row stays as it was.                                              *)
(***************************************************************************)
C20_DailyIncrements ==
    [][\A r \in Requests : Commits(r) =>
        LET u == req[r].user
            d == req[r].today
            s == IF req[r].latency = NoLatency THEN 0 ELSE req[r].latency
            minutes == CHOOSE m \in 0 .. s : 60 * m >= s /\ 60 * (m - 1) < s
            correct == IF req[r].quality >= 3 THEN 1 ELSE 0
            old == DailyRow(daily, u, d)
            new == DailyRow(daily', u, d)
            base == IF old = NoRow
                    THEN [userId |-> u, date |-> d, cardsReviewed |-> 0,
                          correctAnswers |-> 0, totalAnswers |-> 0,
                          studyTimeMinutes |-> 0]
                    ELSE old
        IN  /\ new = [userId |-> u, date |-> d,
                      cardsReviewed |-> base.cardsReviewed + 1,
                      correctAnswers |-> base.correctAnswers + correct,
                      totalAnswers |-> base.totalAnswers + 1,
                      studyTimeMinutes |-> base.studyTimeMinutes + minutes]
            /\ daily' \ {new} = daily \ {old}
    ]_vars

(* A failed and a passed review of 61 seconds each on one day. *)
C20_Witness ==
    /\ Len(history) = 2
    /\ \E x \in daily :
          /\ x.cardsReviewed = 2
          /\ x.totalAnswers = 2
          /\ x.correctAnswers = 1
          /\ x.studyTimeMinutes = 4

(***************************************************************************)
(* The due-cards claims look at the answer of the last query, held in      *)
(* due, on the step that gives it.                                         *)
(***************************************************************************)
Returned(c, cards) == \E i \in 1 .. Len(cards) : cards[i] = c

(***************************************************************************)
(* C21: the query of user u at time asOf returns, each once, exactly the   *)
(* cards owned by u whose nextReviewDate <= asOf, and changes no table and *)
(* no request.                                                             *)
(***************************************************************************)
C21_DueCardsExact ==
    [][due' # due =>
        /\ \A c \in Cards :
              Returned(c, due'.cards) <=>
                  /\ owner[c] = due'.user
                  /\ sched[c] # NoRow
                  /\ sched[c].nextReviewDate <= due'.asOf
        /\ \A i, j \in 1 .. Len(due'.cards) :
              due'.cards[i] = due'.cards[j] => i = j
        /\ due'.asOf = now
        /\ dbVars' = dbVars
        /\ req' = req
    ]_vars

(* One card due exactly at asOf is returned; the other user's card, due  *)
(* at the same time, is not.                                              *)
C21_Witness ==
    /\ due.user = "u1"
    /\ due.asOf = now
    /\ due.cards = <<"c1">>
    /\ owner = [c \in Cards |-> IF c = "c1" THEN "u1" ELSE "u2"]
    /\ sched["c1"].nextReviewDate = now
    /\ sched["c2"].nextReviewDate = now

(***************************************************************************)
(* C22: the query returns its cards by nextReviewDate ascending, and cards *)
(* with equal nextReviewDate by ascending card identifier, so that one     *)
(* stored state and one pair of arguments have one answer.                 *)
(***************************************************************************)
C22_TiesByCardId ==
    [][due' # due =>
        \A i, j \in 1 .. Len(due'.cards) :
            i < j =>
                LET a == due'.cards[i]
                    b == due'.cards[j]
                IN  \/ sched[a].nextReviewDate < sched[b].nextReviewDate
                    \/ /\ sched[a].nextReviewDate = sched[b].nextReviewDate
                       /\ CardId(a) < CardId(b)
    ]_vars

C24_DeleteCascades ==
    [][\A c \in Cards :
        (owner[c] \in Users /\ owner'[c] \notin Users) =>
            /\ sched'[c] = NoRow
            /\ \A i \in 1 .. Len(history') : history'[i].flashcardId # c
            /\ \A i \in 1 .. Len(history') :
                  \E j \in 1 .. Len(history) : history[j] = history'[i]
            /\ Len(history') =
                  Cardinality({j \in 1 .. Len(history) :
                                  history[j].flashcardId # c})
            /\ daily' = daily
            /\ streak' = streak
            /\ \A o \in Cards \ {c} :
                  owner'[o] = owner[o] /\ sched'[o] = sched[o]
    ]_vars

(* A reviewed card is gone with its history; the day's count and the     *)
(* streak of its review are still there.                                  *)
C24_Witness ==
    /\ owner["c1"] = Deleted
    /\ sched["c1"] = NoRow
    /\ history = <<>>
    /\ req[SeqRequest].result = "ok"
    /\ \E x \in daily : x.userId = "u1" /\ x.cardsReviewed = 1
    /\ \E s \in streak : s.userId = "u1" /\ s.currentStreak = 1

(***************************************************************************)
(* C25: a committed review leaves the card with nextReviewDate = the time  *)
(* the scheduler read + the new interval in days and with lastReviewedAt   *)
(* = the time the update read, both within the review (the same instant    *)
(* when the clock does not move during it); the interval is >= 1, so the   *)
(* card is not due for its owner at any time before nextReviewDate, the    *)
(* time of the review included.                                            *)
(***************************************************************************)
C25_ReviewedCardNotDue ==
    [][\A r \in Requests, c \in Cards, at \in 0 .. now :
        (Commits(r) /\ req[r].card = c /\ req[r].calcAt = at) =>
            /\ req[r].calcAt \in 0 .. now
            /\ sched'[c].interval >= 1
            /\ sched'[c].nextReviewDate = at + sched'[c].interval * TicksPerDay
            /\ sched'[c].lastReviewedAt >= at
            /\ sched'[c].lastReviewedAt <= now
            /\ at = now => sched'[c].lastReviewedAt = now
            /\ \A u \in Users, asOf \in 0 .. (sched'[c].nextReviewDate - 1) :
                  c \notin DueCardSet(u, asOf)'
            /\ \A u \in Users : c \notin DueCardSet(u, at)'
    ]_vars

(* The second review of a card, on the day after its first: due in six   *)
(* days.                                                                  *)
C25_Witness ==
    /\ Len(history) = 2
    /\ req[SeqRequest].result = "ok"
    /\ sched["c1"].repetitions = 2
    /\ sched["c1"].interval = 6
    /\ sched["c1"].lastReviewedAt = now
    /\ sched["c1"].nextReviewDate = now + 6 * TicksPerDay
    /\ "c1" \notin DueCardSet("u1", now)

(***************************************************************************)
(* C26: a committed review appends exactly one history entry, with the     *)
(* submitted quality, wasCorrect = (quality >= 3), ease and interval       *)
(* before equal to the card's stored schedule immediately before this      *)
(* review's update and ease and interval after equal to the schedule this  *)
(* review wrote; no review changes or removes an existing entry.           *)
(***************************************************************************)
C26_HistoryMatchesSchedule ==
    [][
        /\ \A r \in Requests : Commits(r) =>
              /\ Len(history') = Len(history) + 1
              /\ SubSeq(history', 1, Len(history)) = history
              /\ LET e == history'[Len(history')]
                     c == req[r].card
                 IN  /\ e.flashcardId = c
                     /\ e.userId = req[r].user
                     /\ e.quality = req[r].quality
                     /\ e.wasCorrect = (req[r].quality >= 3)
                     /\ e.easeFactorBefore = sched[c].easeFactor
                     /\ e.intervalBefore = sched[c].interval
                     /\ e.easeFactorAfter = sched'[c].easeFactor
                     /\ e.intervalAfter = sched'[c].interval
        /\ (\A r \in Requests : ~Commits(r)) => history' = history
    ]_vars

(***************************************************************************)
(* C27: the card is checked before the quality: a review submitted while   *)
(* no card has a schedule is not answered InvalidInput, whatever its       *)
(* quality.                                                                *)
(***************************************************************************)
C27_CardCheckedFirst ==
    [][\A r \in Requests :
        (/\ submitted' = submitted + 1
         /\ req'[r] # req[r]
         /\ \A c \in Cards : sched[c] = NoRow)
            => req'[r].result # "InvalidInput"
    ]_vars

(***************************************************************************)
(* C28: under every interleaving, each DailyStat row has cardsReviewed =   *)
(* totalAnswers >= correctAnswers >= 0; a user's rows together count the   *)
(* reviews the user has committed, and their correctAnswers those of       *)
(* quality >= 3; and each commit adds its review to the row of its user    *)
(* and its day alone, so no increment is lost or misplaced.                *)
(***************************************************************************)
RECURSIVE SumOver(_, _)
SumOver(rows, field) ==
    IF rows = {} THEN 0
    ELSE LET x == CHOOSE y \in rows : TRUE
         IN  x[field] + SumOver(rows \ {x}, field)

CommittedBy(u) == {i \in 1 .. Len(history) : history[i].userId = u}

DailyCountsExact ==
    /\ \A x \in daily :
          /\ x.cardsReviewed = x.totalAnswers
          /\ x.correctAnswers <= x.totalAnswers
          /\ x.correctAnswers >= 0
    /\ \A u \in Users :
          LET rows == {x \in daily : x.userId = u}
          IN  /\ SumOver(rows, "cardsReviewed") = Cardinality(CommittedBy(u))
              /\ SumOver(rows, "correctAnswers") =
                    Cardinality({i \in CommittedBy(u) : history[i].quality >= 3})

C28_NoLostIncrement ==
    /\ []DailyCountsExact
    /\ [][\A r \in Requests : Commits(r) =>
            \A x \in daily' :
                \/ x \in daily
                \/ /\ x.userId = req[r].user
                   /\ x.date = req[r].today
                   /\ x.cardsReviewed =
                         1 + SumOver({y \in daily : /\ y.userId = x.userId
                                                    /\ y.date = x.date},
                                     "cardsReviewed")
       ]_vars

(* Two reviews of one user on one day, one passed and one failed, are   *)
(* both counted.                                                          *)
C28_Witness ==
    /\ Len(history) = 2
    /\ history[1].userId = "u1"
    /\ history[2].userId = "u1"
    /\ history[1].quality = 5
    /\ history[2].quality = 0
    /\ \E x \in daily : /\ x.userId = "u1"
                        /\ x.cardsReviewed = 2
                        /\ x.totalAnswers = 2
                        /\ x.correctAnswers = 1
    /\ \E r \in Requests : req[r].pc = "done" /\ req[r].result = "ok"

(***************************************************************************)
(* C29: every schedule, stored or about to be committed, has interval 1    *)
(* when repetitions is 0 or 1, interval 6 when repetitions is 2, and       *)
(* interval >= 6 when repetitions >= 3.                                    *)
(***************************************************************************)
ConsistentSchedule(row) ==
    /\ row.repetitions >= 0
    /\ row.repetitions \in {0, 1} => row.interval = 1
    /\ row.repetitions = 2 => row.interval = 6
    /\ row.repetitions >= 3 => row.interval >= 6

C29_RepetitionsMatchInterval ==
    /\ \A c \in Cards : sched[c] # NoRow => ConsistentSchedule(sched[c])
    /\ \A r \in Requests :
          req[r].wSched # NoRow => ConsistentSchedule(req[r].wSched)

(* Three perfect reviews in a row: 1, 6 and 15 days. *)
C29_Witness ==
    /\ Len(history) = 3
    /\ history[2].intervalAfter = 6
    /\ sched["c1"].repetitions = 3
    /\ sched["c1"].interval = 15

(***************************************************************************)
(* C30: only the commit of a review of a card changes its nextReviewDate,  *)
(* so a card that is due stays due until it is reviewed or deleted; and,   *)
(* time passing, every card whose nextReviewDate lies within the run       *)
(* comes to be among its owner's due cards unless it is reviewed or        *)
(* deleted first.                                                          *)
(***************************************************************************)
ReviewCommits(c) == \E r \in Requests : Commits(r) /\ req[r].card = c

C30_DueUntilReviewed ==
    /\ [][\A c \in Cards :
            (sched[c] # NoRow /\ sched'[c] # NoRow /\ ~ReviewCommits(c)) =>
                /\ sched'[c].nextReviewDate = sched[c].nextReviewDate
                /\ owner'[c] = owner[c]
                /\ \A u \in Users :
                      c \in DueCardSet(u, now) => c \in DueCardSet(u, now)'
       ]_vars
    /\ \A c \in Cards : \A d \in StartTime .. CardHorizon :
          (sched[c] # NoRow /\ sched[c].nextReviewDate = d)
              ~> \/ sched[c] = NoRow
                 \/ sched[c].nextReviewDate # d
                 \/ c \in DueCardSet(owner[c], now)

(* A card never reviewed has become due with time and is returned, after *)
(* a review of the owner's other card.                                    *)
C30_Witness ==
    /\ owner["c1"] = "u1"
    /\ owner["c2"] = "u1"
    /\ sched["c1"].lastReviewedAt = NoDate
    /\ sched["c1"].nextReviewDate < now
    /\ sched["c2"].lastReviewedAt # NoDate
    /\ Len(history) = 1
    /\ due.user = "u1"
    /\ due.asOf = now
    /\ Returned("c1", due.cards)

====
